---- MODULE Spec2Model ----
(***************************************************************************)
(* Plane controller core: the keyed connect-or-reuse protocol, the backend *)
(* status store (backend, backend_status, backend_key, token), the         *)
(* backend_state notification bus, the status stream, keepalives, the      *)
(* termination sweep and the node registry's handles.                      *)
(*                                                                         *)
(* update_status, status_stream, route_info_for_token, update_keepalive    *)
(* and termination_candidates are translated from                          *)
(* plane/src/database/backend.rs; Controller::connect, register_node and   *)
(* NodeHandle's drop from plane/src/controller/core.rs.  The body of       *)
(* PlaneDatabase::connect, the scheduler, the BackendStatus enum, the      *)
(* subscription bus and the node table's register and mark_offline are not *)
(* part of the sources at hand and follow the design document.             *)
(***************************************************************************)
EXTENDS Integers, Sequences, FiniteSets, TLC

\* ---------------------------------------------------------------- bounds
NumProcs == 2        \* concurrent connect callers
MaxConnects == 3     \* connect calls started in one behaviour
MaxUpdates == 2      \* update_status calls in one behaviour
NumStreams == 1      \* status streams opened in one behaviour
NumWorkers == 2      \* drone connections reporting statuses concurrently
MaxCalls == 2        \* stepwise update_status calls in one behaviour
MaxHandles == 2      \* register_node calls in one behaviour
MaxTime == 2         \* seconds the clock advances in one behaviour

\* ------------------------------------------------------- Option<T> values
None == <<>>
Some(x) == <<x>>
Unwrap(o) == o[1]

\* ------------------------------------------------------------- statuses
\* BackendStatus, in declaration order; the derived ordering compares the
\* position in this list.
StatusList ==
  <<"Scheduled", "Loading", "Starting", "Waiting", "Ready",
    "Terminating", "HardTerminating", "Terminated">>

BackendStatus == {StatusList[i] : i \in 1..Len(StatusList)}

Terminated == "Terminated"
Scheduled == "Scheduled"

StatusOrd(s) == CHOOSE i \in 1..Len(StatusList) : StatusList[i] = s

\* a <= b on BackendStatus
StatusLe(a, b) == StatusOrd(a) <= StatusOrd(b)
StatusLt(a, b) == StatusOrd(a) < StatusOrd(b)

\* The text of each status as the status columns store it.
StatusText ==
  <<"scheduled", "loading", "starting", "waiting", "ready",
    "terminating", "hard-terminating", "terminated">>

\* status.to_string()
StatusToString(s) == StatusText[StatusOrd(s)]

\* BackendStatus::try_from(String): None stands for the Err case
StatusTryFrom(str) ==
  IF \E i \in 1..Len(StatusText) : StatusText[i] = str
  THEN Some(StatusList[CHOOSE i \in 1..Len(StatusText) : StatusText[i] = str])
  ELSE None

\* ------------------------------------------------------------ addresses
\* A SocketAddr is an (ip, port) pair; its text form is "ip:port", kept
\* here as the sequence <<ip, ":", port>>.
Ips == {"10.0.0.1"}
Ports == {8080}
SocketAddrs == [ip : Ips, port : Ports]

AddrToString(a) == <<a.ip, ":", a.port>>

\* str.parse::<SocketAddr>(): Some(addr) or None on a parse error
ParseSocketAddr(str) ==
  IF /\ Len(str) = 3
     /\ str[2] = ":"
     /\ str[1] \in Ips
     /\ str[3] \in Ports
  THEN Some([ip |-> str[1], port |-> str[3]])
  ELSE None

\* ------------------------------------------------------ value domains
Procs == 1..NumProcs
Streams == 1..NumStreams
Clusters == {"c1", "c2"}
KeyNames == {"k1"}

Workers == 1..NumWorkers
NodeNames == {"drone-a"}
Seconds == {1}

\* SpawnConfig { cluster, lifetime_limit_seconds, max_idle_seconds }
SpawnConfig(c, lifetime, idle) ==
  [cluster |-> c, lifetime_limit_seconds |-> lifetime, max_idle_seconds |-> idle]

\* A spawn_config that names no cluster and sets no limit.
PlainConfig == SpawnConfig(None, None, None)

\* spawn_config: Option<SpawnConfig>, key: Option<KeyConfig>
AllConnectRequests ==
  [spawn_config : {None} \cup
     {Some(SpawnConfig(c, l, i)) :
        c \in {None} \cup {Some(x) : x \in Clusters},
        l \in {None} \cup {Some(x) : x \in Seconds},
        i \in {None} \cup {Some(x) : x \in Seconds}},
   key : {None} \cup {Some(k) : k \in KeyNames}]

\* The requests clients send: keyed with and without a spawn_config, for the
\* default cluster or for c2, and an unkeyed spawn.
ConnectRequests ==
  {r \in AllConnectRequests :
     \/ r.key # None /\ r.spawn_config \in {None, Some(PlainConfig),
                                             Some(SpawnConfig(Some("c2"), None, None))}
     \/ r.key = None /\ r.spawn_config = Some(PlainConfig)}

VARIABLES
  backend,         \* table backend: id (index) -> row
  backend_status,  \* table backend_status: serial id (index) -> row
  backend_key,     \* table backend_key: set of rows [key, id]
  token,           \* table token: token (index) -> row
  node,            \* table node: NodeId (index) -> row
  backend_action,  \* actions emitted to drones
  bus,             \* committed backend_state notifications not yet broadcast
  default_cluster, \* Controller.default_cluster
  pc,              \* connect caller -> position
  req,             \* connect caller -> request
  cluster,         \* connect caller -> resolved cluster
  plan,            \* connect caller -> decision of the open transaction
  attempts,        \* connect caller -> transaction retries so far
  responses,       \* history: outcome of every finished connect call
  n_connects,      \* history: number of connect calls started
  n_updates,       \* history: number of update_status calls
  released,        \* history: keys freed by an update_status(_, Terminated)
  route_result,    \* result of the last route_info_for_token call
  stream_pc,       \* stream -> position
  stream_backend,  \* stream -> backend it was opened on
  sub,             \* stream -> Option<queue of the subscription>
  result,          \* stream -> snapshot rows not yet yielded
  last_status,     \* stream -> Option<last status yielded from the snapshot>
  yielded,         \* history: stream -> statuses yielded so far
  written_after,   \* history: stream -> statuses committed since subscribe
  delivered,       \* history: stream -> statuses its subscription was handed
  backend_status_id_seq, \* last value of the serial of backend_status.id
  us_pc,           \* worker -> position in its update_status call
  us_call,         \* worker -> arguments of its update_status call
  us_txn,          \* worker -> what its open transaction has staged
  us_results,      \* history: outcome of every finished stepwise call
  handles,         \* NodeHandle values handed out by register_node
  now,             \* the database clock, in seconds
  keepalive_result,  \* outcome of the last update_keepalive call
  candidates_result  \* result of the last termination_candidates call

dbVars == <<backend, backend_status, backend_key, token, node, backend_action,
            backend_status_id_seq>>
connVars == <<pc, req, cluster, plan, attempts, responses, n_connects>>
streamVars == <<stream_pc, stream_backend, sub, result, last_status, yielded,
                delivered>>
txnVars == <<us_pc, us_call, us_txn, us_results>>
sweepVars == <<now, keepalive_result, candidates_result>>
\* Workers' transactions, node handles, the clock and the sweeper's results.
sideVars == <<txnVars, handles, sweepVars>>
vars == <<dbVars, bus, default_cluster, connVars, n_updates, released,
          route_result, streamVars, written_after, sideVars>>

\* What the connect resolver leaves alone.
restVars == <<default_cluster, n_updates, route_result, streamVars, written_after,
              sideVars>>


\* =========================================================== scheduler
\* Number of non-terminated backends placed on drone d.
DroneLoad(d) ==
  Cardinality({b \in 1..Len(backend) :
                 /\ backend[b].drone_id = d
                 /\ backend[b].last_status # StatusToString(Terminated)})

\* Drones of cluster c that are online.
EligibleDrones(c) ==
  {d \in 1..Len(node) : node[d].cluster = c /\ node[d].offline_at = None}

\* Least loaded eligible drone, lowest NodeId on a tie; None if there is none.
select_drone(c) ==
  IF EligibleDrones(c) = {} THEN None
  ELSE Some(CHOOSE d \in EligibleDrones(c) :
              \A e \in EligibleDrones(c) :
                \/ DroneLoad(d) < DroneLoad(e)
                \/ DroneLoad(d) = DroneLoad(e) /\ d <= e)

\* ======================================================== connect resolver
\* Transaction retries on a key conflict before connect fails with conflict.
MaxAttempts == 3

NoRequest == [spawn_config |-> None, key |-> None]

NoPlan == [spawned |-> FALSE, backend_id |-> 0, drone |-> 0, locked |-> FALSE,
           stale |-> FALSE]

\* The key tuple (cluster, namespace/name/tag) a caller's request names.
KeyTuple(p) == <<Unwrap(cluster[p]), Unwrap(req[p].key)>>

\* backend_key rows of a key tuple (at most one: the tuple is unique).
KeyRows(kt) == {r \in backend_key : r.key = kt}

\* The key tuples whose row is locked (SELECT ... FOR UPDATE) by a caller
\* other than p with an open transaction.
LockedBy(q) ==
  IF pc[q] = "commit" /\ plan[q].locked THEN {KeyTuple(q)} ELSE {}

LockedByOthers(p) == UNION {LockedBy(q) : q \in Procs \ {p}}

LockedKeys == UNION {LockedBy(q) : q \in Procs}

\* The row of `responses` a finished connect call leaves.
Outcome(p, res, b, sp, tok) ==
  [key |-> IF req[p].key = None \/ cluster[p] = None THEN None ELSE Some(KeyTuple(p)),
   has_spawn_config |-> req[p].spawn_config # None,
   result |-> res,
   backend_id |-> b,
   spawned |-> sp,
   token |-> tok,
   attempts |-> attempts[p],
   after_release |->
     IF req[p].key = None \/ cluster[p] = None THEN None
     ELSE IF \E r \in released : r.key = KeyTuple(p)
          THEN Some((CHOOSE r \in released : r.key = KeyTuple(p)).id)
          ELSE None]

\* The call is over: its locals are gone.
Return(p) ==
  /\ pc' = [pc EXCEPT ![p] = "idle"]
  /\ req' = [req EXCEPT ![p] = NoRequest]
  /\ cluster' = [cluster EXCEPT ![p] = None]
  /\ plan' = [plan EXCEPT ![p] = NoPlan]
  /\ attempts' = [attempts EXCEPT ![p] = 0]

\* The caller's transaction ends without a commit and the call returns err.
ConnectFail(p, err) ==
  /\ Return(p)
  /\ responses' = Append(responses, Outcome(p, err, 0, FALSE, 0))
  /\ UNCHANGED n_connects
  /\ UNCHANGED <<dbVars, bus, released, restVars>>

\* The cluster of a request: spawn_config.cluster, else the default cluster
\* the controller passes along (step 1).
ResolveCluster(r, dflt) ==
  IF r.spawn_config # None /\ Unwrap(r.spawn_config).cluster # None
  THEN Unwrap(r.spawn_config).cluster
  ELSE dflt

\* Controller::connect: hands the request and the controller's default
\* cluster to the database, which resolves the cluster and opens the
\* transaction, or fails with no-cluster.
connect(p, r) ==
  /\ pc[p] = "idle"
  /\ n_connects < MaxConnects
  /\ n_connects' = n_connects + 1
  /\ UNCHANGED <<attempts, plan>>
  /\ IF ResolveCluster(r, default_cluster) = None
     THEN /\ UNCHANGED <<pc, req, cluster>>
          /\ responses' = Append(responses,
               [key |-> None, has_spawn_config |-> r.spawn_config # None,
                result |-> "no-cluster", backend_id |-> 0, spawned |-> FALSE,
                token |-> 0, attempts |-> 0, after_release |-> None])
     ELSE /\ pc' = [pc EXCEPT ![p] = "select"]
          /\ req' = [req EXCEPT ![p] = r]
          /\ cluster' = [cluster EXCEPT ![p] = ResolveCluster(r, default_cluster)]
          /\ UNCHANGED responses
  /\ UNCHANGED <<dbVars, bus, released, restVars>>

\* Steps 2 to 4 inside the transaction: look the key up FOR UPDATE, decide
\* between reuse and spawn, and pick a drone for a spawn.
db_connect_select(p) ==
  /\ pc[p] = "select"
  /\ req[p].key # None => KeyTuple(p) \notin LockedByOthers(p)
  /\ LET hasKey == req[p].key # None
         rows == IF hasKey THEN KeyRows(KeyTuple(p)) ELSE {}
         row == CHOOSE r \in rows : TRUE
         live == rows # {} /\ backend[row.id].last_status # StatusToString(Terminated)
         stale == rows # {} /\ ~live
         drone == select_drone(Unwrap(cluster[p]))
     IN IF live
        THEN /\ plan' = [plan EXCEPT ![p] =
                  [spawned |-> FALSE, backend_id |-> row.id,
                   drone |-> backend[row.id].drone_id, locked |-> TRUE,
                   stale |-> FALSE]]
             /\ pc' = [pc EXCEPT ![p] = "commit"]
             /\ UNCHANGED <<req, cluster, attempts, responses, n_connects>>
             /\ UNCHANGED <<dbVars, bus, released, restVars>>
        ELSE IF req[p].spawn_config = None
        THEN ConnectFail(p, "not-found")
        ELSE IF drone = None
        THEN ConnectFail(p, "no-drone-available")
        ELSE /\ plan' = [plan EXCEPT ![p] =
                  [spawned |-> TRUE, backend_id |-> 0, drone |-> Unwrap(drone),
                   locked |-> stale, stale |-> stale]]
             /\ pc' = [pc EXCEPT ![p] = "commit"]
             /\ UNCHANGED <<req, cluster, attempts, responses, n_connects>>
             /\ UNCHANGED <<dbVars, bus, released, restVars>>

\* The unique constraint on backend_key rejects the commit of a spawn whose
\* key another transaction has inserted meanwhile.
KeyConflict(p) ==
  /\ plan[p].spawned
  /\ req[p].key # None
  /\ ~plan[p].stale
  /\ KeyRows(KeyTuple(p)) # {}

\* Step 6 on a key conflict: retry from step 2, or give up with conflict.
db_connect_conflict(p) ==
  /\ pc[p] = "commit"
  /\ KeyConflict(p)
  /\ IF attempts[p] + 1 < MaxAttempts
     THEN /\ pc' = [pc EXCEPT ![p] = "select"]
          /\ plan' = [plan EXCEPT ![p] = NoPlan]
          /\ attempts' = [attempts EXCEPT ![p] = attempts[p] + 1]
          /\ UNCHANGED <<req, cluster, responses>>
     ELSE /\ Return(p)
          /\ responses' = Append(responses,
               [Outcome(p, "conflict", 0, FALSE, 0) EXCEPT !.attempts = attempts[p] + 1])
  /\ UNCHANGED <<n_connects, dbVars, bus, released, restVars>>

\* Steps 4 to 8 taking effect at commit: the new backend row, its
\* Scheduled event and key row (spawn), the token (always), the Scheduled
\* notification and the Spawn action for the drone.
db_connect_commit(p) ==
  /\ pc[p] = "commit"
  /\ ~KeyConflict(p)
  /\ LET sp == plan[p].spawned
         b == IF sp THEN Len(backend) + 1 ELSE plan[p].backend_id
         tok == Len(token) + 1
         kept == IF plan[p].stale THEN backend_key \ KeyRows(KeyTuple(p))
                 ELSE backend_key
     IN /\ backend' =
             IF sp
             THEN Append(backend,
                    [cluster |-> Unwrap(cluster[p]),
                     last_status |-> StatusToString(Scheduled),
                     cluster_address |-> None,
                     exit_code |-> None,
                     drone_id |-> plan[p].drone,
                     last_keepalive |-> now,
                     expiration_time |->
                       IF Unwrap(req[p].spawn_config).lifetime_limit_seconds = None
                       THEN None
                       ELSE Some(now + Unwrap(Unwrap(req[p].spawn_config).lifetime_limit_seconds)),
                     allowed_idle_seconds |->
                       Unwrap(req[p].spawn_config).max_idle_seconds])
             ELSE backend
        /\ backend_status' =
             IF sp
             THEN Append(backend_status,
                    [id |-> backend_status_id_seq + 1, backend_id |-> b,
                     status |-> StatusToString(Scheduled)])
             ELSE backend_status
        /\ backend_status_id_seq' =
             IF sp THEN backend_status_id_seq + 1 ELSE backend_status_id_seq
        /\ backend_key' =
             IF sp /\ req[p].key # None
             THEN kept \cup {[key |-> KeyTuple(p), id |-> b]}
             ELSE kept
        /\ token' = Append(token, [backend_id |-> b])
        /\ bus' = IF sp THEN Append(bus, [key |-> b, payload |-> Scheduled]) ELSE bus
        /\ backend_action' =
             IF sp
             THEN backend_action \cup
                    {[backend_id |-> b, drone_id |-> plan[p].drone, action |-> "Spawn"]}
             ELSE backend_action
        /\ responses' = Append(responses, Outcome(p, "ok", b, sp, tok))
        /\ released' =
             IF req[p].spawn_config # None /\ req[p].key # None
             THEN {r \in released : r.key # KeyTuple(p)}
             ELSE released
  /\ Return(p)
  /\ UNCHANGED <<n_connects, node, restVars>>


\* ============================================================ update_status
\* The same UPDATE with cluster_address = coalesce($3, cluster_address) and
\* exit_code = coalesce($4, exit_code): a NULL argument keeps the column.
UpdateBackendRowCoalesce(tbl, b, status, address, exit_code) ==
  [i \in 1..Len(tbl) |->
     IF i = b
     THEN [tbl[i] EXCEPT
             !.last_status = StatusToString(status),
             !.cluster_address =
                IF address = None THEN tbl[i].cluster_address
                ELSE Some(AddrToString(Unwrap(address))),
             !.exit_code = IF exit_code = None THEN tbl[i].exit_code ELSE exit_code]
     ELSE tbl[i]]

\* update backend set last_status, last_status_time, cluster_address,
\* exit_code where id = b
UpdateBackendRow(tbl, b, status, address, exit_code) ==
  [i \in 1..Len(tbl) |->
     IF i = b
     THEN [tbl[i] EXCEPT
             !.last_status = StatusToString(status),
             !.cluster_address =
                IF address = None THEN None
                ELSE Some(AddrToString(Unwrap(address))),
             !.exit_code = exit_code]
     ELSE tbl[i]]

\* insert into backend_status (backend_id, status)
InsertBackendStatus(log, id, b, status) ==
  Append(log, [id |-> id, backend_id |-> b, status |-> StatusToString(status)])

\* The delete without its guard: the key goes on every status report.
DeleteBackendKeyAnyStatus(rows, b, status) == {r \in rows : r.id # b}

\* if status == Terminated: delete from backend_key where id = b
\* The delete with no where clause: a Terminated status empties the table.
DeleteBackendKeyAllRows(rows, b, status) ==
  IF status = Terminated THEN {} ELSE rows

DeleteBackendKey(rows, b, status) ==
  IF status = Terminated THEN {r \in rows : r.id # b} ELSE rows

\* emit_with_key on the transaction: the notification leaves at commit.
EmitWithKey(queue, b, status) ==
  Append(queue, [key |-> b, payload |-> status])

\* The subscriptions that are open on backend b.
Subscribers(b) ==
  {s \in Streams : sub[s] # None /\ stream_backend[s] = b}

\* txn.commit(): the writes staged on the transaction become the table.
\* A transaction dropped without it rolls back and leaves `current`.
TxnDropped(staged, current) == current

TxnCommit(staged, current) == staged

\* One update_status transaction.  The UPDATE takes the backend's row lock
\* first, so transactions on one backend run one after the other; the
\* delete waits for a connect that holds the key row FOR UPDATE.
update_status(b, status, address, exit_code) ==
  /\ n_updates < MaxUpdates
  /\ b \in 1..Len(backend)
  /\ status = Terminated =>
       \A r \in backend_key : r.id = b => r.key \notin LockedKeys
  /\ n_updates' = n_updates + 1
  /\ bus' = TxnCommit(EmitWithKey(bus, b, status), bus)
  /\ backend' =
       TxnCommit(UpdateBackendRow(backend, b, status, address, exit_code), backend)
  /\ backend_status' =
       TxnCommit(InsertBackendStatus(backend_status, backend_status_id_seq + 1,
                                     b, status),
                 backend_status)
  /\ backend_status_id_seq' = backend_status_id_seq + 1
  /\ backend_key' = TxnCommit(DeleteBackendKey(backend_key, b, status), backend_key)
  /\ released' =
       IF status = Terminated
       THEN released \cup {[key |-> r.key, id |-> b] : r \in {x \in backend_key : x.id = b}}
       ELSE released
  /\ written_after' =
       [s \in Streams |->
          IF s \in Subscribers(b) THEN Append(written_after[s], status)
          ELSE written_after[s]]
  /\ UNCHANGED <<token, node, backend_action, default_cluster, connVars,
                 route_result, streamVars, sideVars>>

\* ==================================================== update_status, stepwise
\* The same transaction statement by statement, for callers that run
\* concurrently, fail or are cancelled between two statements.
\* The arguments of a call; `overlap` records that another call on the same
\* backend was in flight when this one began.
NoCall == [backend |-> 0, status |-> Scheduled, address |-> None, exit_code |-> None,
           overlap |-> FALSE]

\* An open transaction: staged notifications, whether the backend UPDATE
\* ran, the id the INSERT drew (0: none), whether the DELETE ran, and
\* whether the transaction holds the backend's row lock.
NoTxn == [emits |-> <<>>, updated |-> FALSE, status_id |-> 0, delete_key |-> FALSE,
          locked |-> FALSE]

\* Calls begun so far.
CallsBegun == Len(us_results) + Cardinality({w \in Workers : us_pc[w] # "idle"})

\* emit_with_key(&mut *txn, ..) without the transaction: the notification
\* goes out at once.
emit_with_key_on_pool(staged, queue, b, status) ==
  [staged |-> staged, queue |-> EmitWithKey(queue, b, status)]

\* emit_with_key(&mut *txn, ..): the notification is staged on the
\* transaction and the bus sees nothing yet.
emit_with_key(staged, queue, b, status) ==
  [staged |-> EmitWithKey(staged, b, status), queue |-> queue]

\* The statements in the order a call runs the INSERT before the UPDATE.
StatementAfterInsertFirst(at, status) ==
  CASE at = "begin" -> "insert"
    [] at = "insert" -> "update"
    [] at = "update" -> IF status = Terminated THEN "delete" ELSE "commit"
    [] at = "delete" -> "commit"

\* The statement that follows `at` in update_status.
StatementAfter(at, status) ==
  CASE at = "begin" -> "update"
    [] at = "update" -> "insert"
    [] at = "insert" -> IF status = Terminated THEN "delete" ELSE "commit"
    [] at = "delete" -> "commit"

\* The backend's row is locked by an open transaction of a worker other
\* than w.
RowLockedByOthers(w, b) ==
  \E v \in Workers \ {w} : us_txn[v].locked /\ us_call[v].backend = b

\* backend_status with `row` added, kept in id order.
InsertById(log, row) ==
  LET before == {i \in 1..Len(log) : log[i].id < row.id}
      n == Cardinality(before)
  IN SubSeq(log, 1, n) \o <<row>> \o SubSeq(log, n + 1, Len(log))

\* The call returns: its transaction and locals are gone.
us_return(w, res) ==
  /\ us_pc' = [us_pc EXCEPT ![w] = "idle"]
  /\ us_call' = [us_call EXCEPT ![w] = NoCall]
  /\ us_txn' = [us_txn EXCEPT ![w] = NoTxn]
  /\ us_results' = Append(us_results,
       [backend |-> us_call[w].backend, status |-> us_call[w].status,
        overlap |-> us_call[w].overlap, result |-> res])

\* pool.begin() and emit_with_key.  Connections are interchangeable: the
\* lowest idle one takes the call.
update_status_begin(w, b, status, address, exit_code) ==
  /\ us_pc[w] = "idle"
  /\ \A v \in Workers : v < w => us_pc[v] # "idle"
  /\ CallsBegun < MaxCalls
  /\ LET e == emit_with_key(<<>>, bus, b, status)
     IN /\ us_txn' = [us_txn EXCEPT ![w] = [NoTxn EXCEPT !.emits = e.staged]]
        /\ bus' = e.queue
  /\ us_call' = [us_call EXCEPT ![w] =
       [backend |-> b, status |-> status, address |-> address,
        exit_code |-> exit_code,
        overlap |-> \E v \in Workers \ {w} :
                      us_pc[v] # "idle" /\ us_call[v].backend = b]]
  /\ us_pc' = [us_pc EXCEPT ![w] = StatementAfter("begin", status)]
  /\ UNCHANGED <<dbVars, default_cluster, connVars, n_updates, released,
                 route_result, streamVars, written_after, us_results, handles,
                 sweepVars>>

\* update backend set .. where id = $1: waits for the row lock, takes it
\* and stages the new values; no row matches an unknown id.
update_status_update(w) ==
  /\ us_pc[w] = "update"
  /\ ~RowLockedByOthers(w, us_call[w].backend)
  /\ us_txn' = [us_txn EXCEPT ![w].updated = TRUE,
                              ![w].locked = us_call[w].backend \in 1..Len(backend)]
  /\ us_pc' = [us_pc EXCEPT ![w] = StatementAfter("update", us_call[w].status)]
  /\ UNCHANGED <<dbVars, bus, default_cluster, connVars, n_updates, released,
                 route_result, streamVars, written_after, us_call, us_results,
                 handles, sweepVars>>

\* insert into backend_status: the row draws the next id of the serial.
update_status_insert(w) ==
  /\ us_pc[w] = "insert"
  /\ backend_status_id_seq' = backend_status_id_seq + 1
  /\ us_txn' = [us_txn EXCEPT ![w].status_id = backend_status_id_seq + 1]
  /\ us_pc' = [us_pc EXCEPT ![w] = StatementAfter("insert", us_call[w].status)]
  /\ UNCHANGED <<backend, backend_status, backend_key, token, node,
                 backend_action, bus, default_cluster, connVars, n_updates,
                 released, route_result, streamVars, written_after, us_call,
                 us_results, handles, sweepVars>>

\* The same insert where backend_status.backend_id references backend(id)
\* and the id is unknown: the statement fails, `?` returns the database
\* error and the dropped transaction rolls back.
update_status_insert_rejected(w) ==
  /\ us_pc[w] = "insert"
  /\ us_call[w].backend \notin 1..Len(backend)
  /\ us_return(w, "db-error")
  /\ UNCHANGED <<dbVars, bus, default_cluster, connVars, n_updates, released,
                 route_result, streamVars, written_after, handles, sweepVars>>

\* delete from backend_key where id = $1 (status Terminated only)
update_status_delete(w) ==
  /\ us_pc[w] = "delete"
  /\ \A r \in backend_key : r.id = us_call[w].backend => r.key \notin LockedKeys
  /\ us_txn' = [us_txn EXCEPT ![w].delete_key = TRUE]
  /\ us_pc' = [us_pc EXCEPT ![w] = StatementAfter("delete", us_call[w].status)]
  /\ UNCHANGED <<dbVars, bus, default_cluster, connVars, n_updates, released,
                 route_result, streamVars, written_after, us_call, us_results,
                 handles, sweepVars>>

\* txn.commit(): everything staged takes effect at once and the staged
\* notifications reach the bus.
update_status_commit(w) ==
  /\ us_pc[w] = "commit"
  /\ LET c == us_call[w]
         t == us_txn[w]
     IN /\ backend' =
             IF t.updated
             THEN UpdateBackendRow(backend, c.backend, c.status, c.address, c.exit_code)
             ELSE backend
        /\ backend_status' =
             IF t.status_id > 0
             THEN InsertById(backend_status,
                    [id |-> t.status_id, backend_id |-> c.backend,
                     status |-> StatusToString(c.status)])
             ELSE backend_status
        /\ backend_key' =
             IF t.delete_key THEN DeleteBackendKey(backend_key, c.backend, c.status)
             ELSE backend_key
        /\ bus' = bus \o t.emits
        /\ written_after' =
             [s \in Streams |->
                IF s \in Subscribers(c.backend)
                THEN Append(written_after[s], c.status)
                ELSE written_after[s]]
  /\ us_return(w, "ok")
  /\ UNCHANGED <<token, node, backend_action, backend_status_id_seq,
                 default_cluster, connVars, n_updates, released, route_result,
                 streamVars, handles, sweepVars>>

\* The caller drops the future at an await point: the transaction is
\* dropped without a commit and rolls back.
update_status_cancel(w) ==
  /\ us_pc[w] # "idle"
  /\ us_return(w, "cancelled")
  /\ UNCHANGED <<dbVars, bus, default_cluster, connVars, n_updates, released,
                 route_result, streamVars, written_after, handles, sweepVars>>


\* ===================================================== route_info_for_token
\* BackendName::try_from(String): the names connect generates decode.
BackendNameTryFrom(id) == IF id \in Nat \ {0} THEN Some(id) ELSE None

\* The lookup without its "where token = $1": limit 1 takes the first row.
route_info_for_token_first_row(tok) ==
  IF token = <<>>
  THEN [error |-> FALSE, value |-> None]
  ELSE LET row == token[1]
           address == backend[row.backend_id].cluster_address
       IN IF address = None \/ ParseSocketAddr(Unwrap(address)) = None
          THEN [error |-> FALSE, value |-> None]
          ELSE [error |-> FALSE,
                value |-> Some([backend_id |-> row.backend_id,
                                address |-> Unwrap(ParseSocketAddr(Unwrap(address)))])]

\* The lookup's result: [error, value], value an Option<RouteInfo>.
route_info_for_token(tok) ==
  IF tok \notin 1..Len(token)
  THEN [error |-> FALSE, value |-> None]
  ELSE LET row == token[tok]
           address == IF row.backend_id \in 1..Len(backend)
                      THEN backend[row.backend_id].cluster_address
                      ELSE None
       IN IF address = None
          THEN [error |-> FALSE, value |-> None]
          ELSE IF ParseSocketAddr(Unwrap(address)) = None
          THEN [error |-> FALSE, value |-> None]
          ELSE IF BackendNameTryFrom(row.backend_id) = None
          THEN [error |-> TRUE, value |-> None]
          ELSE [error |-> FALSE,
                value |-> Some([backend_id |-> Unwrap(BackendNameTryFrom(row.backend_id)),
                                address |-> Unwrap(ParseSocketAddr(Unwrap(address)))])]

\* A proxy looks a token up.
RouteLookup(tok) ==
  /\ route_result' = [token |-> tok, result |-> route_info_for_token(tok)]
  /\ route_result' # route_result
  /\ UNCHANGED <<dbVars, bus, default_cluster, connVars, n_updates, released,
                 streamVars, written_after, sideVars>>

\* ================================================================ event bus
\* The head of the committed notifications goes to every open subscription
\* on its key.
bus_broadcast ==
  /\ bus # <<>>
  /\ bus' = Tail(bus)
  /\ sub' = [s \in Streams |->
       IF s \in Subscribers(Head(bus).key)
       THEN Some(Append(Unwrap(sub[s]), Head(bus).payload))
       ELSE sub[s]]
  /\ delivered' = [s \in Streams |->
       IF s \in Subscribers(Head(bus).key)
       THEN Append(delivered[s], Head(bus).payload)
       ELSE delivered[s]]
  /\ UNCHANGED <<dbVars, default_cluster, connVars, n_updates, released,
                 route_result, stream_pc, stream_backend, result, last_status,
                 yielded, written_after, sideVars>>

\* ============================================================ status_stream
\* subscribe_with_key(backend): the subscription opens before the read.
status_stream_subscribe(s, b) ==
  /\ stream_pc[s] = "idle"
  /\ stream_backend' = [stream_backend EXCEPT ![s] = b]
  /\ sub' = [sub EXCEPT ![s] = Some(<<>>)]
  /\ stream_pc' = [stream_pc EXCEPT ![s] = "subscribed"]
  /\ UNCHANGED <<dbVars, bus, default_cluster, connVars, n_updates, released,
                 route_result, result, last_status, yielded, written_after,
                 delivered, sideVars>>

\* select status from backend_status where backend_id = b order by id asc
SnapshotRows(b) ==
  LET ids == {i \in 1..Len(backend_status) : backend_status[i].backend_id = b}
      RECURSIVE Rows(_)
      Rows(i) == IF i > Len(backend_status) THEN <<>>
                 ELSE IF i \in ids THEN <<backend_status[i].status>> \o Rows(i + 1)
                 ELSE Rows(i + 1)
  IN Rows(1)

status_stream_snapshot(s) ==
  /\ stream_pc[s] = "subscribed"
  /\ result' = [result EXCEPT ![s] = SnapshotRows(stream_backend[s])]
  /\ stream_pc' = [stream_pc EXCEPT ![s] = "rows"]
  /\ UNCHANGED <<dbVars, bus, default_cluster, connVars, n_updates, released,
                 route_result, stream_backend, sub, last_status, yielded,
                 written_after, delivered, sideVars>>

\* for row in result: yield the row's status and remember it.
stream_yield_row(s) ==
  /\ stream_pc[s] = "rows"
  /\ result[s] # <<>>
  /\ LET status == StatusTryFrom(Head(result[s]))
     IN IF status # None
        THEN /\ yielded' = [yielded EXCEPT ![s] = Append(yielded[s], Unwrap(status))]
             /\ last_status' = [last_status EXCEPT ![s] = status]
        ELSE UNCHANGED <<yielded, last_status>>
  /\ result' = [result EXCEPT ![s] = Tail(result[s])]
  /\ UNCHANGED <<dbVars, bus, default_cluster, connVars, n_updates, released,
                 route_result, stream_pc, stream_backend, sub, written_after,
                 delivered, sideVars>>

\* while let Some(item) = sub.next(): skip an item that is <= the last
\* status of the snapshot, yield any other.
stream_next(s) ==
  /\ stream_pc[s] = "rows"
  /\ result[s] = <<>>
  /\ Unwrap(sub[s]) # <<>>
  /\ LET item == Head(Unwrap(sub[s]))
     IN IF last_status[s] # None /\ StatusLe(item, Unwrap(last_status[s]))
        THEN UNCHANGED yielded
        ELSE yielded' = [yielded EXCEPT ![s] = Append(yielded[s], item)]
  /\ sub' = [sub EXCEPT ![s] = Some(Tail(Unwrap(sub[s])))]
  /\ UNCHANGED <<dbVars, bus, default_cluster, connVars, n_updates, released,
                 route_result, stream_pc, stream_backend, result, last_status,
                 written_after, delivered, sideVars>>

\* ================================================================= keepalive
\* The same UPDATE with no where clause: every row matches.
UpdateKeepaliveAllRows(tbl, b, t) ==
  [table |-> [i \in 1..Len(tbl) |-> [tbl[i] EXCEPT !.last_keepalive = t]],
   rows_affected |-> Len(tbl)]

\* update backend set last_keepalive = now() where id = $1: the table
\* afterwards and the number of rows the statement matched.
UpdateKeepaliveRows(tbl, b, t) ==
  [table |-> [i \in 1..Len(tbl) |->
                IF i = b THEN [tbl[i] EXCEPT !.last_keepalive = t] ELSE tbl[i]],
   rows_affected |-> Cardinality({i \in 1..Len(tbl) : i = b})]

\* BackendDatabase::update_keepalive: Err(RowNotFound) when no row matched.
update_keepalive(b) ==
  /\ LET u == UpdateKeepaliveRows(backend, b, now)
     IN /\ backend' = u.table
        /\ keepalive_result' =
             [backend |-> b,
              result |-> IF u.rows_affected = 0 THEN "not-found" ELSE "ok"]
  /\ UNCHANGED <<backend_status, backend_key, token, node, backend_action,
                 backend_status_id_seq, bus, default_cluster, connVars, n_updates,
                 released, route_result, streamVars, written_after, txnVars,
                 handles, now, candidates_result>>

\* ==================================================== termination_candidates
\* SQL's three-valued logic: None is NULL, Some(TRUE) and Some(FALSE) are
\* the truth values.
SqlGt(a, b) ==
  IF a = None \/ b = None THEN None ELSE Some(Unwrap(a) > Unwrap(b))

SqlEq(a, b) ==
  IF a = None \/ b = None THEN None ELSE Some(Unwrap(a) = Unwrap(b))

SqlNe(a, b) ==
  IF a = None \/ b = None THEN None ELSE Some(Unwrap(a) # Unwrap(b))

SqlAnd(x, y) ==
  IF x = Some(FALSE) \/ y = Some(FALSE) THEN Some(FALSE)
  ELSE IF x = None \/ y = None THEN None
  ELSE Some(TRUE)

\* An OR that is NULL as soon as one side is.
SqlOrStrict(x, y) ==
  IF x = None \/ y = None THEN None
  ELSE Some(Unwrap(x) \/ Unwrap(y))

SqlOr(x, y) ==
  IF x = Some(TRUE) \/ y = Some(TRUE) THEN Some(TRUE)
  ELSE IF x = None \/ y = None THEN None
  ELSE Some(FALSE)

\* make_interval(secs => s): NULL for a NULL argument.
MakeInterval(s) == s

\* The where clause of termination_candidates on one row, at time t.
CandidateWhere(row, d, t) ==
  SqlAnd(SqlAnd(SqlEq(Some(row.drone_id), Some(d)),
                SqlNe(Some(row.last_status), Some(StatusToString(Terminated)))),
         SqlOr(SqlGt(Some(t - row.last_keepalive), MakeInterval(row.allowed_idle_seconds)),
               SqlGt(Some(t), row.expiration_time)))

\* BackendDatabase::termination_candidates: the rows the where clause
\* accepts, each as a TerminationCandidate.
termination_candidates(d) ==
  LET RECURSIVE From(_)
      From(i) ==
        IF i > Len(backend) THEN <<>>
        ELSE IF CandidateWhere(backend[i], d, now) = Some(TRUE)
                  /\ BackendNameTryFrom(i) # None
        THEN <<[backend_id |-> Unwrap(BackendNameTryFrom(i)),
                expiration_time |-> backend[i].expiration_time,
                last_keepalive |-> backend[i].last_keepalive,
                allowed_idle_seconds |-> backend[i].allowed_idle_seconds,
                as_of |-> now]>> \o From(i + 1)
        ELSE From(i + 1)
  IN From(1)

\* The sweeper asks for the candidates of drone d.
TerminationLookup(d) ==
  /\ candidates_result' = [drone |-> d, rows |-> termination_candidates(d)]
  /\ candidates_result' # candidates_result
  /\ UNCHANGED <<dbVars, bus, default_cluster, connVars, n_updates, released,
                 route_result, streamVars, written_after, txnVars, handles, now,
                 keepalive_result>>

\* ============================================================= node registry
\* AnyNodeName::try_from(handshake.name): the names drones send decode.
AnyNodeNameTryFrom(name) == IF name \in NodeNames THEN Some(name) ELSE None

\* The rows of table node with this name (at most one: upsert by name).
NodeRows(tbl, name) == {n \in 1..Len(tbl) : tbl[n].name = name}

\* node().register: upsert by name, a new NodeId on the first insertion
\* only, offline_at = NULL.  The table and the NodeId.
NodeRegister(tbl, name, cl) ==
  IF NodeRows(tbl, name) # {}
  THEN LET n == CHOOSE x \in NodeRows(tbl, name) : TRUE
       IN [table |-> [tbl EXCEPT ![n] = [name |-> name, cluster |-> cl,
                                         offline_at |-> None]],
           id |-> n]
  ELSE [table |-> Append(tbl, [name |-> name, cluster |-> cl, offline_at |-> None]),
        id |-> Len(tbl) + 1]

\* node().mark_offline(id): offline_at = now()
NodeMarkOffline(tbl, id, t) ==
  [n \in 1..Len(tbl) |->
     IF n = id THEN [tbl[n] EXCEPT !.offline_at = Some(t)] ELSE tbl[n]]

\* What the other operations leave alone when a node handle moves.
nodeRest == <<backend, backend_status, backend_key, token, backend_action,
              backend_status_id_seq, bus, default_cluster, connVars, n_updates,
              released, route_result, streamVars, written_after, txnVars>>

\* Controller::register_node: decode the name, register the node, hand
\* out a NodeHandle { id, db: Some(db) }.  `spawned` and `ran` count the
\* mark_offline tasks the handle's drop spawned and those that ran; `alone`
\* records that every earlier handle of the node was released by then.
register_node(name, cl) ==
  /\ Len(handles) < MaxHandles
  /\ AnyNodeNameTryFrom(name) # None
  /\ LET reg == NodeRegister(node, Unwrap(AnyNodeNameTryFrom(name)), cl)
     IN /\ node' = reg.table
        /\ handles' = Append(handles,
             [id |-> reg.id, db |-> Some("db"), dropped |-> FALSE,
              spawned |-> 0, ran |-> 0,
              alone |-> \A g \in 1..Len(handles) :
                          handles[g].id = reg.id => handles[g].dropped])
  /\ UNCHANGED <<nodeRest, sweepVars>>

\* A drop that takes the database handle and spawns nothing.
NodeHandle_drop_without_task(h) ==
  /\ h \in 1..Len(handles)
  /\ ~handles[h].dropped
  /\ handles[h].db # None
  /\ handles' = [handles EXCEPT ![h].db = None, ![h].dropped = TRUE]
  /\ UNCHANGED <<node, nodeRest, sweepVars>>

\* impl Drop for NodeHandle: take the database handle and spawn the task
\* that marks the node offline.  A value is dropped once.
NodeHandle_drop(h) ==
  /\ h \in 1..Len(handles)
  /\ ~handles[h].dropped
  /\ handles[h].db # None
  /\ handles' = [handles EXCEPT ![h].db = None, ![h].dropped = TRUE,
                                ![h].spawned = handles[h].spawned + 1]
  /\ UNCHANGED <<node, nodeRest, sweepVars>>

\* The spawned task runs: db.node().mark_offline(id).
mark_offline_task(h) ==
  /\ h \in 1..Len(handles)
  /\ handles[h].ran < handles[h].spawned
  /\ node' = NodeMarkOffline(node, handles[h].id, now)
  /\ handles' = [handles EXCEPT ![h].ran = handles[h].ran + 1]
  /\ UNCHANGED <<nodeRest, sweepVars>>

\* The database clock advances by a second.
Tick ==
  /\ now < MaxTime
  /\ now' = now + 1
  /\ UNCHANGED <<dbVars, bus, default_cluster, connVars, n_updates, released,
                 route_result, streamVars, written_after, txnVars, handles,
                 keepalive_result, candidates_result>>

\* ============================================================ specifications
NoRoute == [token |-> 0, result |-> [error |-> FALSE, value |-> None]]
NoKeepalive == [backend |-> 0, result |-> "none"]
NoCandidates == [drone |-> 0, rows |-> <<>>]

\* One drone is registered and online, in cluster c1; c2 has none.
NodeInit == <<[name |-> "drone-a", cluster |-> "c1", offline_at |-> None]>>

InitIdle ==
  /\ pc = [p \in Procs |-> "idle"]
  /\ req = [p \in Procs |-> NoRequest]
  /\ cluster = [p \in Procs |-> None]
  /\ plan = [p \in Procs |-> NoPlan]
  /\ attempts = [p \in Procs |-> 0]
  /\ n_connects = 0
  /\ n_updates = 0
  /\ released = {}
  /\ route_result = NoRoute
  /\ stream_pc = [s \in Streams |-> "idle"]
  /\ stream_backend = [s \in Streams |-> 0]
  /\ sub = [s \in Streams |-> None]
  /\ result = [s \in Streams |-> <<>>]
  /\ last_status = [s \in Streams |-> None]
  /\ yielded = [s \in Streams |-> <<>>]
  /\ written_after = [s \in Streams |-> <<>>]
  /\ delivered = [s \in Streams |-> <<>>]
  /\ us_pc = [w \in Workers |-> "idle"]
  /\ us_call = [w \in Workers |-> NoCall]
  /\ us_txn = [w \in Workers |-> NoTxn]
  /\ us_results = <<>>
  /\ handles = <<>>
  /\ now = 0
  /\ keepalive_result = NoKeepalive
  /\ candidates_result = NoCandidates

\* A controller over an empty database.
InitEmpty ==
  /\ InitIdle
  /\ backend = <<>>
  /\ backend_status = <<>>
  /\ backend_status_id_seq = 0
  /\ backend_key = {}
  /\ token = <<>>
  /\ backend_action = {}
  /\ bus = <<>>
  /\ responses = <<>>

\* A controller over an empty database with its drones registered.
Init ==
  /\ InitEmpty
  /\ node = NodeInit
  /\ default_cluster \in {None, Some("c1")}

\* What drones report in Spec: Ready with the backend's address, and
\* Terminated with an exit code.
Reports ==
  {[status |-> "Ready", address |-> Some(a), exit_code |-> None] : a \in SocketAddrs}
  \cup {[status |-> Terminated, address |-> None, exit_code |-> Some(0)]}

Next ==
  \/ \E p \in Procs, r \in ConnectRequests : connect(p, r)
  \/ \E p \in Procs : db_connect_select(p)
  \/ \E p \in Procs : db_connect_conflict(p)
  \/ \E p \in Procs : db_connect_commit(p)
  \/ \E b \in 1..Len(backend), r \in Reports :
        update_status(b, r.status, r.address, r.exit_code)

Spec == Init /\ [][Next]_vars

\* The rows one keyed spawn on drone 1 leaves.
InitOneBackend ==
  /\ InitIdle
  /\ backend = <<[cluster |-> "c1", last_status |-> StatusToString(Scheduled),
                  cluster_address |-> None, exit_code |-> None, drone_id |-> 1,
                  last_keepalive |-> 0, expiration_time |-> None,
                  allowed_idle_seconds |-> None]>>
  /\ backend_status = <<[id |-> 1, backend_id |-> 1,
                         status |-> StatusToString(Scheduled)]>>
  /\ backend_status_id_seq = 1
  /\ backend_key = {[key |-> <<"c1", "k1">>, id |-> 1]}
  /\ token = <<[backend_id |-> 1]>>
  /\ backend_action = {[backend_id |-> 1, drone_id |-> 1, action |-> "Spawn"]}
  /\ responses = <<>>
  /\ node = NodeInit
  /\ default_cluster = Some("c1")

\* A keyed backend that one connect call has just spawned on drone 1.
InitStream ==
  /\ InitOneBackend
  /\ bus = <<[key |-> 1, payload |-> Scheduled]>>

\* The statuses the drone reports in SpecStream.
StreamReports == {"Loading", "Ready", Terminated}

NextStream ==
  \/ \E st \in StreamReports : update_status(1, st, None, None)
  \/ bus_broadcast
  \/ \E s \in Streams : status_stream_subscribe(s, 1)
  \/ \E s \in Streams : status_stream_snapshot(s)
  \/ \E s \in Streams : stream_yield_row(s)
  \/ \E s \in Streams : stream_next(s)

SpecStream == InitStream /\ [][NextStream]_vars


\* Route lookups: clients connect with and without a key in the default
\* cluster, drones report, and a proxy resolves tokens.
RouteRequests ==
  {r \in ConnectRequests : r.spawn_config = Some(PlainConfig)}

InitRoute == Init /\ default_cluster = Some("c1")

\* One client at a time suffices here: no key conflict arises.
NextRoute ==
  \/ \E r \in RouteRequests : connect(1, r)
  \/ db_connect_select(1)
  \/ db_connect_commit(1)
  \/ \E b \in 1..Len(backend), r \in Reports :
        update_status(b, r.status, r.address, r.exit_code)
  \/ \E tok \in 1..(Len(token) + 1) : RouteLookup(tok)

SpecRoute == InitRoute /\ [][NextRoute]_vars


\* Concurrent status reports: backend 1 exists as in InitStream, its
\* Scheduled notification already broadcast; no backend has id 2.
InitTxn ==
  /\ InitOneBackend
  /\ bus = <<>>

TxnBackends == {1, 2}

\* What the workers report in SpecTxn.
TxnReports ==
  {[status |-> "Ready", address |-> None, exit_code |-> None],
   [status |-> Terminated, address |-> None, exit_code |-> Some(0)]}

NextTxn ==
  \/ \E w \in Workers, b \in TxnBackends, r \in TxnReports :
        update_status_begin(w, b, r.status, r.address, r.exit_code)
  \/ \E w \in Workers : update_status_update(w)
  \/ \E w \in Workers : update_status_insert(w)
  \/ \E w \in Workers : update_status_insert_rejected(w)
  \/ \E w \in Workers : update_status_delete(w)
  \/ \E w \in Workers : update_status_commit(w)
  \/ \E w \in Workers : update_status_cancel(w)

SpecTxn == InitTxn /\ [][NextTxn]_vars

\* The same reports with status streams open on the two backend ids.  Two
\* connections suffice for transactions that commit in another order than
\* they began; streams are interchangeable and open lowest first.
NotifyWorkers == {w \in Workers : w <= 2}

NextNotify ==
  \/ \E w \in NotifyWorkers, b \in TxnBackends, r \in TxnReports :
        update_status_begin(w, b, r.status, r.address, r.exit_code)
  \/ \E w \in NotifyWorkers : update_status_update(w)
  \/ \E w \in NotifyWorkers : update_status_insert(w)
  \/ \E w \in NotifyWorkers : update_status_insert_rejected(w)
  \/ \E w \in NotifyWorkers : update_status_delete(w)
  \/ \E w \in NotifyWorkers : update_status_commit(w)
  \/ \E w \in NotifyWorkers : update_status_cancel(w)
  \/ bus_broadcast
  \/ \E s \in Streams, b \in TxnBackends :
        /\ \A t \in Streams : t < s => stream_pc[t] # "idle"
        /\ status_stream_subscribe(s, b)

SpecNotify == InitTxn /\ [][NextNotify]_vars

\* Drones connect, disconnect and reconnect to a controller over an empty
\* database.
InitNode ==
  /\ InitEmpty
  /\ node = <<>>
  /\ default_cluster = None

NextNode ==
  \/ \E name \in NodeNames, cl \in Clusters : register_node(name, cl)
  \/ \E h \in 1..MaxHandles : NodeHandle_drop(h)
  \/ \E h \in 1..MaxHandles : mark_offline_task(h)
  \/ Tick

SpecNode == InitNode /\ [][NextNode]_vars

\* The runtime runs every task it was handed.
SpecNodeFair ==
  /\ SpecNode
  /\ \A h \in 1..MaxHandles : WF_vars(mark_offline_task(h))

\* The sweeper.  Three unkeyed spawns at time 0 on two drones of cluster
\* c1 have left: backend 1 on drone 1 with a lifetime limit of a second,
\* backend 2 on drone 1 with an idle limit of a second, backend 3 on drone
\* 2 with no limit.
SweepRow(d, expiration, idle) ==
  [cluster |-> "c1", last_status |-> StatusToString(Scheduled),
   cluster_address |-> None, exit_code |-> None, drone_id |-> d,
   last_keepalive |-> 0, expiration_time |-> expiration,
   allowed_idle_seconds |-> idle]

InitSweep ==
  /\ InitIdle
  /\ backend = <<SweepRow(1, Some(1), None), SweepRow(1, None, Some(1)),
                 SweepRow(2, None, None)>>
  /\ backend_status =
       [i \in 1..3 |-> [id |-> i, backend_id |-> i,
                        status |-> StatusToString(Scheduled)]]
  /\ backend_status_id_seq = 3
  /\ backend_key = {}
  /\ token = [i \in 1..3 |-> [backend_id |-> i]]
  /\ backend_action =
       {[backend_id |-> i, drone_id |-> backend[i].drone_id, action |-> "Spawn"] :
          i \in 1..3}
  /\ bus = <<>>
  /\ responses = <<>>
  /\ node = <<[name |-> "drone-a", cluster |-> "c1", offline_at |-> None],
              [name |-> "drone-b", cluster |-> "c1", offline_at |-> None]>>
  /\ default_cluster = Some("c1")

\* Time passes, drones send keepalives and report Terminated, and the
\* sweeper asks for candidates.
NextSweep ==
  \/ \E b \in 1..Len(backend) : update_status(b, Terminated, None, Some(0))
  \/ \E b \in 1..(Len(backend) + 1) : update_keepalive(b)
  \/ \E d \in 1..Len(node) : TerminationLookup(d)
  \/ Tick

SpecSweep == InitSweep /\ [][NextSweep]_vars

\* Keyed backends side by side: both clusters have a drone, one client
\* connects with the key in either cluster, and drones report.
KeyedRequests ==
  {r \in ConnectRequests : r.key # None /\ r.spawn_config # None}

InitKeys ==
  /\ InitEmpty
  /\ node = <<[name |-> "drone-a", cluster |-> "c1", offline_at |-> None],
              [name |-> "drone-b", cluster |-> "c2", offline_at |-> None]>>
  /\ default_cluster = Some("c1")

NextKeys ==
  \/ \E r \in KeyedRequests : connect(1, r)
  \/ db_connect_select(1)
  \/ db_connect_commit(1)
  \/ \E b \in 1..Len(backend), r \in Reports :
        update_status(b, r.status, r.address, r.exit_code)

SpecKeys == InitKeys /\ [][NextKeys]_vars

\* ==================================================================== claims
KeyTuples == Clusters \X KeyNames

\* The connect calls that returned a response.
Returned == {i \in 1..Len(responses) : responses[i].result = "ok"}

\* The backends connect created for key tuple kt.
BackendsOfKey(kt) ==
  {responses[i].backend_id : i \in {j \in Returned :
      responses[j].spawned /\ responses[j].key = Some(kt)}}

\* Backend b has a Terminated row in the status log.
ReachedTerminated(b) ==
  \E i \in 1..Len(backend_status) :
    /\ backend_status[i].backend_id = b
    /\ backend_status[i].status = StatusToString(Terminated)

\* The statuses of backend b's rows in id order.
StatusLog(b) ==
  [i \in 1..Len(SnapshotRows(b)) |-> Unwrap(StatusTryFrom(SnapshotRows(b)[i]))]

\* The status of backend b's row.
LastStatus(b) == Unwrap(StatusTryFrom(backend[b].last_status))

\* C1 - Key singleton: in every reachable state, for each (cluster,
\* namespace, name, tag) at most one backend created for that key has a
\* last_status other than Terminated.
C1_KeySingleton ==
  \A kt \in KeyTuples :
    Cardinality({b \in BackendsOfKey(kt) : LastStatus(b) # Terminated}) <= 1

\* C2 - Reuse visibility: when a connect with key K returns, and an earlier
\* connect with key K returned spawned=true with backend B, and B has no
\* Terminated row yet, the response names B with spawned=false.
C2_ReuseVisibility ==
  [][Len(responses') > Len(responses) =>
       LET r == responses'[Len(responses')]
       IN (r.result = "ok" /\ r.key # None) =>
            \A i \in Returned :
              (/\ responses[i].key = r.key
               /\ responses[i].spawned
               /\ ~ReachedTerminated(responses[i].backend_id))
              => (r.backend_id = responses[i].backend_id /\ ~r.spawned)]_vars

\* A reuse of a backend that has reported a status in between.
C2_Witness ==
  \E i, j \in Returned :
    /\ i < j
    /\ responses[i].spawned
    /\ responses[i].key # None
    /\ responses[j].key = responses[i].key
    /\ responses[j].backend_id = responses[i].backend_id
    /\ ~responses[j].spawned
    /\ backend[responses[i].backend_id].last_status = StatusToString("Ready")

\* C3 - Key release: a connect with key K and a spawn_config that returns
\* after update_status(B, Terminated) went through for the backend B that
\* held K, and is the first to do so, returns spawned=true with a
\* backend_id other than B.
C3_KeyRelease ==
  \A i \in Returned :
    (responses[i].has_spawn_config /\ responses[i].after_release # None)
    => (/\ responses[i].spawned
        /\ responses[i].backend_id # Unwrap(responses[i].after_release))

\* A key was released and a connect has spawned its next backend.
C3_Witness ==
  \E i \in Returned :
    /\ responses[i].has_spawn_config
    /\ responses[i].after_release # None
    /\ responses[i].spawned
    /\ ReachedTerminated(Unwrap(responses[i].after_release))

\* C4 - Concurrent keyed spawns: among the connects that returned for a key
\* none of whose backends has terminated, exactly one returned spawned=true
\* and all name the same backend_id; none of them gave up with conflict.
C4_ConcurrentKeyedSpawns ==
  \A kt \in KeyTuples :
    LET R == {i \in Returned : responses[i].key = Some(kt)}
    IN (R # {} /\ \A i \in R : ~ReachedTerminated(responses[i].backend_id))
       => /\ Cardinality({i \in R : responses[i].spawned}) = 1
          /\ \A i, j \in R : responses[i].backend_id = responses[j].backend_id
          /\ \A i \in 1..Len(responses) :
               responses[i].key = Some(kt) => responses[i].result # "conflict"

\* Two connects raced for a key: the loser's commit hit the key conflict,
\* it retried and reused the winner's backend.
C4_Witness ==
  \E i, j \in Returned :
    /\ responses[i].key # None
    /\ responses[j].key = responses[i].key
    /\ responses[i].spawned
    /\ ~responses[j].spawned
    /\ responses[j].has_spawn_config
    /\ responses[j].attempts >= 1
    /\ responses[j].backend_id = responses[i].backend_id

\* Number of times status st occurs in the sequence q.
Count(q, st) == Cardinality({i \in 1..Len(q) : q[i] = st})

\* Nothing is on its way to stream s any more: the snapshot is drained, the
\* bus and the subscription queue are empty.
Quiescent(s) ==
  /\ stream_pc[s] = "rows"
  /\ result[s] = <<>>
  /\ Unwrap(sub[s]) = <<>>
  /\ bus = <<>>

\* C5 - Stream completeness: once a stream has drained everything, it has
\* yielded each status written after its subscription opened exactly as
\* often as that status was written to the backend.
C5_StreamCompleteness ==
  \A s \in Streams :
    Quiescent(s) =>
      \A i \in 1..Len(written_after[s]) :
        Count(yielded[s], written_after[s][i])
          = Count(StatusLog(stream_backend[s]), written_after[s][i])

\* The generator has run to its end.  Its only exit is sub.next() returning
\* None, that is the subscription being closed; no status closes it, so no
\* action of the stream leads here.
StreamCompleted(s) == stream_pc[s] = "done"

\* C6 - A status stream ends once it has yielded Terminated: Terminated is
\* the last item yielded and the stream has completed.
C6_StreamEndsAfterTerminated ==
  \A s \in Streams :
    \A i \in 1..Len(yielded[s]) :
      yielded[s][i] = Terminated =>
        (i = Len(yielded[s]) /\ StreamCompleted(s))

\* C7 - The statuses one stream yields are strictly increasing.
C7_StreamStrictlyIncreasing ==
  \A s \in Streams :
    \A i, j \in 1..Len(yielded[s]) :
      i < j => StatusLt(yielded[s][i], yielded[s][j])

\* C8 - Monotone status: for every backend the rows of backend_status in id
\* order carry non-decreasing statuses, and no row follows a Terminated row
\* with another status.
C8_MonotoneStatus ==
  \A b \in 1..Len(backend) :
    \A i, j \in 1..Len(StatusLog(b)) :
      i < j => StatusLe(StatusLog(b)[i], StatusLog(b)[j])

\* C9 - update_status(B, s, ...) with s strictly less than B's last_status
\* changes neither the backend table, the status log nor the key rows, and
\* emits no notification.
C9_InvalidTransitionRejected ==
  [][\A b \in 1..Len(backend), st \in BackendStatus, a \in {None} \cup {Some(x) : x \in SocketAddrs},
        e \in {None, Some(0)} :
       (StatusLt(st, LastStatus(b)) /\ update_status(b, st, a, e))
       => UNCHANGED <<backend, backend_status, backend_key, bus>>]_vars

\* The backend a token was issued for, by the response that carried it.
IssuedFor(tok) ==
  responses[CHOOSE i \in Returned : responses[i].token = tok].backend_id

IssuedTokens == {responses[i].token : i \in Returned}

\* C10 - Token to route round trip: a token connect issued for backend B
\* resolves to None without error while B has no cluster_address, and to a
\* RouteInfo naming B once B has a parseable address; a token never issued
\* resolves to None.
C10_TokenRouteRoundTrip ==
  \A tok \in 1..(Len(token) + 1) :
    LET res == route_info_for_token(tok)
    IN IF tok \notin IssuedTokens
       THEN res = [error |-> FALSE, value |-> None]
       ELSE LET address == backend[IssuedFor(tok)].cluster_address
            IN /\ address = None => res = [error |-> FALSE, value |-> None]
               /\ (address # None /\ ParseSocketAddr(Unwrap(address)) # None)
                  => (/\ ~res.error
                      /\ res.value # None
                      /\ Unwrap(res.value).backend_id = IssuedFor(tok))

\* A proxy resolved a token of the second backend to that backend while a
\* token of the first one, which has no address, resolves to None.
C10_Witness ==
  /\ route_result.token \in IssuedTokens
  /\ route_result.result.value # None
  /\ Unwrap(route_result.result.value).backend_id = 2
  /\ IssuedFor(route_result.token) = 2
  /\ \E tok \in IssuedTokens :
       /\ IssuedFor(tok) = 1
       /\ route_info_for_token(tok).value = None

\* ----------------------------------------------------------------------
\* The statuses of the committed stepwise update_status calls on b, in
\* commit order.
Committed(b) ==
  LET RECURSIVE From(_)
      From(i) == IF i > Len(us_results) THEN <<>>
                 ELSE IF us_results[i].result = "ok" /\ us_results[i].backend = b
                 THEN <<us_results[i].status>> \o From(i + 1)
                 ELSE From(i + 1)
  IN From(1)

\* The notifications for key b that the bus has not broadcast yet.
Pending(b) ==
  LET RECURSIVE From(_)
      From(i) == IF i > Len(bus) THEN <<>>
                 ELSE IF bus[i].key = b THEN <<bus[i].payload>> \o From(i + 1)
                 ELSE From(i + 1)
  IN From(1)

IsSuffix(a, c) ==
  /\ Len(a) <= Len(c)
  /\ SubSeq(c, Len(c) - Len(a) + 1, Len(c)) = a

\* C11: a subscriber is handed the status of an update_status call if and
\* only if the call's transaction committed.  What a subscription was
\* handed, followed by what the bus still holds for its backend, is a tail
\* of the committed statuses of that backend in commit order; it contains
\* every status committed since the subscription opened; and each status
\* in it has its backend_status row.
C11_NotifyIffCommit ==
  \A s \in Streams :
    sub[s] # None =>
      LET b == stream_backend[s]
          D == delivered[s] \o Pending(b)
      IN /\ IsSuffix(D, Committed(b))
         /\ IsSuffix(written_after[s], D)
         /\ \A i \in 1..Len(D) :
              \E j \in 1..Len(backend_status) :
                /\ backend_status[j].backend_id = b
                /\ backend_status[j].status = StatusToString(D[i])

\* A subscriber was handed a committed status while another call on the
\* same backend was rolled back, and nothing is left on the bus.
C11_Witness ==
  \E s \in Streams :
    /\ sub[s] # None
    /\ delivered[s] # <<>>
    /\ written_after[s] # <<>>
    /\ bus = <<>>
    /\ \E i \in 1..Len(us_results) :
         /\ us_results[i].backend = stream_backend[s]
         /\ us_results[i].result \in {"cancelled", "db-error"}

C18_HeldHandleOnline ==
  \A h \in 1..Len(handles) :
    (/\ ~handles[h].dropped
     /\ handles[h].alone
     /\ \A g \in 1..Len(handles) : g > h => handles[g].id # handles[h].id)
      => node[handles[h].id].offline_at = None

\* ----------------------------------------------------------------------
\* The backend_status rows of backend b.
EventRows(b) == {i \in 1..Len(backend_status) : backend_status[i].backend_id = b}

\* C13: for every backend, backend.last_status is the status of its
\* backend_status row with the highest id, whatever the interleaving of
\* concurrent update_status calls on it.
C13_LastStatusIsNewestEvent ==
  \A b \in 1..Len(backend) :
    /\ EventRows(b) # {}
    /\ \A i \in EventRows(b) :
         (\A j \in EventRows(b) : backend_status[j].id <= backend_status[i].id)
           => backend[b].last_status = backend_status[i].status

\* Two calls on one backend had their transactions open together and
\* both committed, with different statuses.
C13_Witness ==
  \E i, j \in 1..Len(us_results) :
    /\ i # j
    /\ us_results[i].result = "ok"
    /\ us_results[j].result = "ok"
    /\ us_results[i].backend = us_results[j].backend
    /\ us_results[i].backend \in 1..Len(backend)
    /\ us_results[i].status # us_results[j].status
    /\ us_results[j].overlap

\* ----------------------------------------------------------------------
\* The backends that a connect call with a key spawned.
KeyedBackends ==
  {responses[i].backend_id : i \in {j \in Returned : /\ responses[j].spawned
                                                      /\ responses[j].key # None}}

\* C14: for every backend created with a key, a backend_key row that
\* references it exists if and only if its last_status is not Terminated.
C14_KeyRowIffNotTerminated ==
  \A b \in KeyedBackends :
    (\E r \in backend_key : r.id = b) <=> LastStatus(b) # Terminated

\* ----------------------------------------------------------------------
\* C15: update_status on a backend id that does not exist fails with
\* not-found, appends no backend_status row and hands the bus no
\* notification for that id.  (Its DELETE matches no backend_key row: no
\* row references an unknown id.)
C15_UnknownBackendNotFound ==
  \A i \in 1..Len(us_results) :
    (/\ us_results[i].backend \notin 1..Len(backend)
     /\ us_results[i].result # "cancelled")
      => /\ us_results[i].result = "not-found"
         /\ EventRows(us_results[i].backend) = {}
         /\ Pending(us_results[i].backend) = <<>>
         /\ \A r \in backend_key : r.id \in 1..Len(backend)

\* ----------------------------------------------------------------------
\* C16: update_keepalive(B) on an existing backend sets only B's
\* last_keepalive, to now, and leaves its other columns, the status log,
\* the key rows and every other backend as they were; on an unknown id it
\* fails with not-found and changes nothing.
C16_KeepaliveFrame ==
  [][\A b \in 1..(Len(backend) + 1) :
       update_keepalive(b) =>
         /\ IF b \in 1..Len(backend)
            THEN /\ keepalive_result'.result = "ok"
                 /\ backend' = [backend EXCEPT ![b].last_keepalive = now]
            ELSE /\ keepalive_result'.result = "not-found"
                 /\ backend' = backend
         /\ UNCHANGED <<backend_status, backend_key, token, node, backend_action>>]_vars

\* A keepalive moved one backend's last_keepalive while another backend
\* kept an older one, and a keepalive for an unknown id was refused.
C16_Witness ==
  /\ keepalive_result.result = "not-found"
  /\ \E b, c \in 1..Len(backend) :
       /\ backend[b].last_keepalive > backend[c].last_keepalive
       /\ backend[b].last_keepalive > 0

\* ----------------------------------------------------------------------
\* Backend b has an idle limit and its last keepalive is older than it.
IdleTooLong(b) ==
  /\ backend[b].allowed_idle_seconds # None
  /\ now - backend[b].last_keepalive > Unwrap(backend[b].allowed_idle_seconds)

\* Backend b has an expiration time and it has passed.
Expired(b) ==
  /\ backend[b].expiration_time # None
  /\ now > Unwrap(backend[b].expiration_time)

CandidateIds(d) ==
  {termination_candidates(d)[i].backend_id : i \in 1..Len(termination_candidates(d))}

\* C17: termination_candidates(d) returns exactly the backends on drone d
\* whose last_status is not Terminated and that are idle beyond their idle
\* limit or past their expiration time; a backend with neither limit, a
\* Terminated backend and a backend of another drone are never returned.
C17_TerminationCandidates ==
  \A d \in 1..Len(node) :
    /\ CandidateIds(d) =
         {b \in 1..Len(backend) :
            /\ backend[b].drone_id = d
            /\ LastStatus(b) # Terminated
            /\ (IdleTooLong(b) \/ Expired(b))}
    /\ Len(termination_candidates(d)) = Cardinality(CandidateIds(d))
    /\ \A b \in CandidateIds(d) :
         /\ backend[b].drone_id = d
         /\ LastStatus(b) # Terminated
         /\ ~(backend[b].allowed_idle_seconds = None /\ backend[b].expiration_time = None)

\* The sweeper got a candidate for a drone that also carries a Terminated
\* backend past its limit, while a backend of the other drone and a
\* backend whose keepalive is recent were left out.
C17_Witness ==
  /\ candidates_result.rows # <<>>
  /\ candidates_result.rows = termination_candidates(candidates_result.drone)
  /\ \E b \in 1..Len(backend) :
       /\ backend[b].drone_id = candidates_result.drone
       /\ LastStatus(b) = Terminated
       /\ (IdleTooLong(b) \/ Expired(b))
  /\ \E b \in 1..Len(backend) : backend[b].drone_id # candidates_result.drone
  /\ CandidateIds(candidates_result.drone) # {}

\* ----------------------------------------------------------------------
\* C19: a committed update_status overwrites cluster_address and exit_code
\* with the call's arguments; after update_status(B, s, address = None) B's
\* cluster_address is NULL and route_info_for_token returns None for every
\* token of B, also when an earlier update had recorded an address.
C19_UpdateOverwritesAddress ==
  [][\A b \in 1..Len(backend), r \in Reports :
       update_status(b, r.status, r.address, r.exit_code) =>
         /\ backend'[b].exit_code = r.exit_code
         /\ r.address # None =>
              /\ backend'[b].cluster_address # None
              /\ ParseSocketAddr(Unwrap(backend'[b].cluster_address)) = r.address
         /\ r.address = None =>
              /\ backend'[b].cluster_address = None
              /\ \A tok \in 1..Len(token) :
                   token[tok].backend_id = b =>
                     route_info_for_token(tok)' = [error |-> FALSE, value |-> None]]_vars

\* A backend that had reported an address was updated with none: its
\* address is gone and the proxy's lookup of its token found no route.
C19_Witness ==
  \E b \in 1..Len(backend) :
    /\ \E i \in 1..Len(StatusLog(b)) : StatusLog(b)[i] = "Ready"
    /\ LastStatus(b) = Terminated
    /\ backend[b].cluster_address = None
    /\ backend[b].exit_code = Some(0)
    /\ route_result.token \in 1..Len(token)
    /\ token[route_result.token].backend_id = b
    /\ route_result.result = route_info_for_token(route_result.token)
    /\ route_result.result.value = None

\* ----------------------------------------------------------------------
\* C20: update_status(B, s) changes backend_key only when s is Terminated,
\* and then removes only the row that references B; in both cases the
\* rows, status logs and keys of the other backends stay as they were.
C20_KeyRowsFrame ==
  [][\A b \in 1..Len(backend), r \in Reports :
       update_status(b, r.status, r.address, r.exit_code) =>
         /\ r.status # Terminated => backend_key' = backend_key
         /\ r.status = Terminated => backend_key' = {x \in backend_key : x.id # b}
         /\ Len(backend') = Len(backend)
         /\ \A c \in 1..Len(backend) :
              c # b => /\ backend'[c] = backend[c]
                       /\ SnapshotRows(c)' = SnapshotRows(c)
                       /\ {x \in backend_key' : x.id = c} = {x \in backend_key : x.id = c}]_vars

\* A keyed backend was Terminated and lost its key row while another
\* backend still holds its own, and a status other than Terminated was
\* written to a backend that holds a key row.
C20_Witness ==
  \E b, c \in KeyedBackends :
    /\ b # c
    /\ LastStatus(b) = Terminated
    /\ ~\E x \in backend_key : x.id = b
    /\ \E x \in backend_key : x.id = c
    /\ LastStatus(c) = "Ready"
====
